---- MODULE Spec2Model ----
(***************************************************************************)
(* A model of flask_api_system.py: the users and api_operations tables of  *)
(* DatabaseService, the JWT issued by login and checked by token_required, *)
(* and the register / login / create_operation / get_operations handlers.  *)
(***************************************************************************)
EXTENDS Integers, Sequences, FiniteSets, TLC

VARIABLES
    users,          \* rows of table users, in rowid order
    api_operations, \* rows of table api_operations, in rowid order
    clock,          \* wall clock, in ticks of 1/TicksPerSecond second
    held,           \* the tokens clients hold: each user's latest login
    resp,           \* the last request served and its response
    workers,        \* concurrent register requests: one record per worker
    writer          \* the worker holding SQLite's write lock (0 = nobody)

vars == <<users, api_operations, clock, held, resp, workers, writer>>

----------------------------------------------------------------------------
(* Bounds of the model *)

TicksPerSecond == 2     \* clock resolution (the real clock has microseconds)
MaxOps == 2             \* rows of api_operations in Spec
NumWorkers == 2         \* concurrent register requests in SpecRegister

(* Program constants *)

TokenTTL == 86400       \* timedelta(hours=24), in seconds
DefaultLimit == 10      \* get_user_operations(limit=10), args.get('limit', 10)

MaxLedger == DefaultLimit + 1   \* rows of api_operations in SpecLedger

----------------------------------------------------------------------------
(* Values of request fields *)

Null == "<null>"        \* JSON null, Python None
Missing == "<missing>"  \* the key (or header, or query parameter) is absent

Usernames == {"alice", "bob"}
Emails == {"alice@x.com", "bob@x.com"}
GoodPassword == "pw12345"
WrongPassword == "pw12346"
Salt == "s1"

Falsy(v) == v \in {Missing, Null, ""}

Max(a, b) == IF a >= b THEN a ELSE b
Min(a, b) == IF a <= b THEN a ELSE b

Range(s) == {s[i] : i \in 1..Len(s)}

Take(s, n) == SubSeq(s, 1, Min(n, Len(s)))

----------------------------------------------------------------------------
(* werkzeug.security: a salted one-way hash.  The digest is kept symbolic:  *)
(* it is a function of the salt and the plaintext and of nothing else.      *)

generate_password_hash(password, salt) ==
    [method |-> "pbkdf2", salt |-> salt, digest |-> <<salt, password>>]

check_password_hash(pwhash, password) ==
    pwhash.digest = <<pwhash.salt, password>>

----------------------------------------------------------------------------
(* Table users *)

NoUser == [id |-> 0, username |-> Null, email |-> Null,
           password_hash |-> generate_password_hash(Null, Null), role |-> Null]

NextId(rows) == Len(rows) + 1   \* AUTOINCREMENT, no row is ever deleted

NotNullViolation(username, email) == username = Null \/ email = Null

UniqueViolationEmailOnly(rows, username, email) ==
    \E i \in 1..Len(rows) : rows[i].email = email

UniqueViolation(rows, username, email) ==
    \E i \in 1..Len(rows) : rows[i].username = username \/ rows[i].email = email

(* create_user up to the INSERT: "raise" when generate_password_hash throws *)
(* (None has no encode), "none" on sqlite3.IntegrityError, "id" otherwise.  *)
create_user(rows, username, email, password) ==
    IF password = Null THEN "raise"
    ELSE IF NotNullViolation(username, email) \/ UniqueViolation(rows, username, email)
         THEN "none"
         ELSE "id"

UserRow(rows, username, email, password, role, salt) ==
    [id |-> NextId(rows), username |-> username, email |-> email,
     password_hash |-> generate_password_hash(password, salt), role |-> role]

get_user_by_username(rows, username) ==
    IF \E i \in 1..Len(rows) : rows[i].username = username
    THEN rows[CHOOSE i \in 1..Len(rows) : rows[i].username = username]
    ELSE NoUser

----------------------------------------------------------------------------
(* Table api_operations *)

(* json.dumps of the request's 'data' value; a missing key is {} (line 240) *)
json_dumps(data) ==
    CASE data = Missing -> "{}"
      [] data = Null -> "null"
      [] data = "foo=bar" -> "{\"foo\": \"bar\"}"
      [] OTHER -> "\"" \o data \o "\""

CreatedAt(now) == now \div TicksPerSecond   \* CURRENT_TIMESTAMP: whole seconds

OperationRowOwnerSwapped(rows, user_id, operation_type, data, now) ==
    [id |-> NextId(rows), user_id |-> NextId(rows), operation_type |-> operation_type,
     data |-> json_dumps(data), status |-> "pending", created_at |-> CreatedAt(now)]

OperationRow(rows, user_id, operation_type, data, now) ==
    [id |-> NextId(rows), user_id |-> user_id, operation_type |-> operation_type,
     data |-> json_dumps(data), status |-> "pending", created_at |-> CreatedAt(now)]

(* ORDER BY created_at DESC names no second key: rows with equal created_at *)
(* come in the order of the scan, rowid ascending as SQLite scans by        *)
(* default, rowid descending under PRAGMA reverse_unordered_selects.        *)
TieOrders == {"rowid_asc", "rowid_desc"}

Before(a, b, tie) ==
    \/ a.created_at > b.created_at
    \/ /\ a.created_at = b.created_at
       /\ IF tie = "rowid_asc" THEN a.id < b.id ELSE a.id > b.id

RECURSIVE OrderBy(_, _)
OrderBy(S, tie) ==
    IF S = {} THEN <<>>
    ELSE LET first == CHOOSE x \in S : \A y \in S \ {x} : Before(x, y, tie)
         IN <<first>> \o OrderBy(S \ {first}, tie)

(* LIMIT n: a negative n is no limit at all in SQLite *)
SqlLimit(s, n) == IF n < 0 THEN s ELSE Take(s, n)

get_user_operations_unfiltered(rows, user_id, limit, tie) ==
    SqlLimit(OrderBy(Range(rows), tie), limit)

get_user_operations(rows, user_id, limit, tie) ==
    SqlLimit(OrderBy({r \in Range(rows) : r.user_id = user_id}, tie), limit)

(* request.args.get('limit', 10, type=int): the default when the parameter *)
(* is absent or int() rejects it.                                           *)
ParseLimit(param) ==
    CASE param = "-1" -> -1
      [] param = "0" -> 0
      [] param = "1" -> 1
      [] param = "2" -> 2
      [] OTHER -> DefaultLimit

----------------------------------------------------------------------------
(* PyJWT, HS256.  A token is header.payload.signature; the signature is the *)
(* HMAC of "header.payload", kept symbolic (the key and the signed message),*)
(* except for its last base64url character, which is kept as a number 0..63:*)
(* a 32-byte HMAC is 43 characters, and the last one carries only 4 bits of *)
(* it, in its high bits.                                                    *)

SECRET_KEY == "dev-secret-key-change-me"

NoPayload == [username |-> Null, user_id |-> 0, role |-> Null, exp |-> 0]

HS256(key, payload) == [key |-> key, msg |-> payload]

(* the last 4 bits of the HMAC: some function of the signed message *)
LastNibble(payload) == (payload.user_id + payload.exp) % 16

base64url_encode_last(nibble) == nibble * 4       \* the unused low bits are 0

base64url_decode_last(char) == char \div 4        \* the unused low bits are dropped

jwt_encode(payload, key) ==
    [kind |-> "jwt", payload |-> payload, mac |-> HS256(key, payload),
     last |-> base64url_encode_last(LastNibble(payload))]

EmptyToken == [kind |-> "empty", payload |-> NoPayload,
               mac |-> HS256(Null, NoPayload), last |-> 0]

(* a non-empty string that is no three-segment token *)
GarbageToken == [kind |-> "garbage", payload |-> NoPayload,
                 mac |-> HS256(Null, NoPayload), last |-> 0]

(* exp is written as timegm(exp.utctimetuple()): whole seconds *)
ExpClaim(now) == (now \div TicksPerSecond) + TokenTTL

SignatureOk(tok, key) ==
    /\ tok.mac = HS256(key, tok.payload)
    /\ base64url_decode_last(tok.last) = LastNibble(tok.payload)

jwt_decode_late(tok, key, now) ==
    IF tok.kind # "jwt" THEN "invalid"
    ELSE IF ~SignatureOk(tok, key) THEN "invalid"
    ELSE IF tok.payload.exp * TicksPerSecond < now THEN "expired"
    ELSE "ok"

(* jwt.decode: the segments, then the signature, then exp (exp <= now) *)
jwt_decode(tok, key, now) ==
    IF tok.kind # "jwt" THEN "invalid"
    ELSE IF ~SignatureOk(tok, key) THEN "invalid"
    ELSE IF tok.payload.exp * TicksPerSecond <= now THEN "expired"
    ELSE "ok"

----------------------------------------------------------------------------
(* The Authorization header: absent, or an optional 'Bearer ' followed by  *)
(* a token string.                                                          *)

NoHeader == [present |-> FALSE, bearer |-> FALSE, tok |-> EmptyToken]

HeaderFalsy(h) == ~h.present \/ (~h.bearer /\ h.tok.kind = "empty")

NotAdmitted(outcome) == [outcome |-> outcome, current_user |-> NoUser]

(* token_required.decorated up to the call of the wrapped handler *)
token_required(h, rows, now) ==
    IF HeaderFalsy(h) THEN NotAdmitted("missing")
    ELSE LET decoded == jwt_decode(h.tok, SECRET_KEY, now)
             current_user == get_user_by_username(rows, h.tok.payload.username)
         IN  IF decoded = "expired" THEN NotAdmitted("expired")
             ELSE IF decoded = "invalid" THEN NotAdmitted("invalid")
             ELSE IF current_user = NoUser THEN NotAdmitted("invalid")
             ELSE [outcome |-> "admitted", current_user |-> current_user]

AuthMessage(outcome) ==
    CASE outcome = "missing" -> "Token is missing"
      [] outcome = "expired" -> "Token has expired"
      [] outcome = "invalid" -> "Token is invalid"
      [] OTHER -> ""

----------------------------------------------------------------------------
(* What clients send *)

Body(u, e, p, r) == [username |-> u, email |-> e, password |-> p, role |-> r]

LastCharDeltas == {1, 2, 3, 4, 63}

(* every token that differs from t in one part of its encoding *)
Altered(t) ==
    {[t EXCEPT !.payload.username = u] : u \in Usernames \ {t.payload.username}}
    \cup {[t EXCEPT !.payload.user_id = t.payload.user_id + 1]}
    \cup {[t EXCEPT !.payload.role = r] : r \in {"user", "admin"} \ {t.payload.role}}
    \cup {[t EXCEPT !.payload.exp = t.payload.exp + TokenTTL]}
    \cup {[t EXCEPT !.mac = HS256("another-key", t.payload)]}
    \cup {[t EXCEPT !.last = (t.last + d) % 64] : d \in LastCharDeltas}

Bearer(t) == [present |-> TRUE, bearer |-> TRUE, tok |-> t]
Bare(t) == [present |-> TRUE, bearer |-> FALSE, tok |-> t]

(* the instants the clock is sampled at: within the first seconds, and *)
(* around the TTL after them                                            *)
EarlyPoints == {0, 1, TicksPerSecond}

ClockPoints ==
    EarlyPoints \cup {TokenTTL * TicksPerSecond + i : i \in {-1, 0, 1}}

----------------------------------------------------------------------------
(* Requests.  Each action is one request served from start to finish.      *)

NoResp ==
    [kind |-> "none", status |-> 0, message |-> "", now |-> 0,
     username |-> Missing, email |-> Missing, password |-> Missing,
     header |-> NoHeader, token |-> EmptyToken, current_user |-> NoUser,
     user_id |-> 0, operation_id |-> 0, param |-> Missing, limit |-> 0,
     operations |-> <<>>, count |-> 0]

Request(kind) == [NoResp EXCEPT !.kind = kind, !.now = clock]

RoleOf(role) == IF role = Missing THEN "user" ELSE role   \* data.get('role', 'user')

(* POST /api/register *)
register(body) ==
    LET req == [Request("register") EXCEPT !.username = body.username,
                                           !.email = body.email,
                                           !.password = body.password]
        created == create_user(users, body.username, body.email, body.password)
    IN  /\ IF Missing \in {body.username, body.email, body.password}
           THEN /\ resp' = [req EXCEPT !.status = 400,
                                       !.message = "Missing required fields"]
                /\ users' = users
           ELSE IF created = "raise"
           THEN /\ resp' = [req EXCEPT !.status = 500,
                                       !.message = "Registration failed"]
                /\ users' = users
           ELSE IF created = "none"
           THEN /\ resp' = [req EXCEPT !.status = 409,
                                       !.message = "Username or email already exists"]
                /\ users' = users
           ELSE /\ resp' = [req EXCEPT !.status = 201,
                                       !.message = "User created successfully",
                                       !.user_id = NextId(users)]
                /\ users' = Append(users, UserRow(users, body.username, body.email,
                                                  body.password, RoleOf(body.role),
                                                  Salt))
        /\ UNCHANGED <<api_operations, clock, held, workers, writer>>

Payload(user, now) ==
    [username |-> user.username, user_id |-> user.id, role |-> user.role,
     exp |-> ExpClaim(now)]

(* POST /api/login *)
login(username, password) ==
    LET req == [Request("login") EXCEPT !.username = username, !.password = password]
        user == get_user_by_username(users, username)
        token == jwt_encode(Payload(user, clock), SECRET_KEY)
    IN  /\ IF Falsy(username) \/ Falsy(password)
           THEN /\ resp' = [req EXCEPT !.status = 400,
                                       !.message = "Username and password required"]
                /\ held' = held
           ELSE IF user # NoUser /\ check_password_hash(user.password_hash, password)
           THEN /\ resp' = [req EXCEPT !.status = 200, !.message = "Login successful",
                                       !.token = token, !.user_id = user.id]
                /\ held' = {t \in held : t.payload.username # username} \cup {token}
           ELSE /\ resp' = [req EXCEPT !.status = 401,
                                       !.message = "Invalid credentials"]
                /\ held' = held
        /\ UNCHANGED <<users, api_operations, clock, workers, writer>>

(* POST /api/operations *)
create_operation(h, operation_type, data, maxRows) ==
    LET req == [Request("create_operation") EXCEPT !.header = h]
        auth == token_required(h, users, clock)
    IN  /\ IF auth.outcome # "admitted"
           THEN /\ resp' = [req EXCEPT !.status = 401,
                                       !.message = AuthMessage(auth.outcome)]
                /\ api_operations' = api_operations
           ELSE IF Falsy(operation_type)
           THEN /\ resp' = [req EXCEPT !.status = 400,
                                       !.message = "Operation type is required",
                                       !.current_user = auth.current_user]
                /\ api_operations' = api_operations
           ELSE /\ Len(api_operations) < maxRows
                /\ resp' = [req EXCEPT !.status = 201,
                                       !.message = "Operation created successfully",
                                       !.current_user = auth.current_user,
                                       !.operation_id = NextId(api_operations)]
                /\ api_operations' =
                       Append(api_operations,
                              OperationRow(api_operations, auth.current_user.id,
                                           operation_type, data, clock))
        /\ UNCHANGED <<users, clock, held, workers, writer>>

(* GET /api/operations *)
get_operations(h, param, tie) ==
    LET req == [Request("get_operations") EXCEPT !.header = h, !.param = param]
        auth == token_required(h, users, clock)
        limit == ParseLimit(param)
        operations == get_user_operations(api_operations, auth.current_user.id,
                                          limit, tie)
    IN  /\ IF auth.outcome # "admitted"
           THEN resp' = [req EXCEPT !.status = 401,
                                    !.message = AuthMessage(auth.outcome)]
           ELSE resp' = [req EXCEPT !.status = 200,
                                    !.current_user = auth.current_user,
                                    !.limit = limit,
                                    !.operations = operations,
                                    !.count = Len(operations)]
        /\ UNCHANGED <<users, api_operations, clock, held, workers, writer>>

(* time passes *)
Tick(points) ==
    /\ \E t \in points : t > clock /\ clock' = t
    /\ UNCHANGED <<users, api_operations, held, resp, workers, writer>>

----------------------------------------------------------------------------
(* register, statement by statement, for requests served concurrently.     *)
(* The INSERT takes the database's write lock and checks the constraints   *)
(* against the committed rows; the lock is held until commit or close.     *)

Idle == [pc |-> "idle", body |-> Body(Missing, Missing, Missing, Missing),
         user_id |-> 0, status |-> 0]

(* lines 165-170 and 66-70 *)
RegStart(w, body) ==
    /\ workers[w].pc = "idle"
    /\ workers' = [workers EXCEPT ![w] =
          IF Missing \in {body.username, body.email, body.password}
          THEN [Idle EXCEPT !.pc = "done", !.body = body, !.status = 400]
          ELSE IF body.password = Null
          THEN [Idle EXCEPT !.pc = "done", !.body = body, !.status = 500]
          ELSE [Idle EXCEPT !.pc = "insert", !.body = body]]
    /\ UNCHANGED <<users, api_operations, clock, held, resp, writer>>

(* lines 71-76, and 80-83, 185-186 when the INSERT raises IntegrityError *)
RegInsert(w) ==
    /\ workers[w].pc = "insert"
    /\ writer = 0
    /\ IF create_user(users, workers[w].body.username, workers[w].body.email,
                      workers[w].body.password) = "none"
       THEN /\ workers' = [workers EXCEPT ![w].pc = "done", ![w].status = 409]
            /\ writer' = writer
       ELSE /\ workers' = [workers EXCEPT ![w].pc = "commit",
                                          ![w].user_id = NextId(users)]
            /\ writer' = w
    /\ UNCHANGED <<users, api_operations, clock, held, resp>>

(* lines 77-78, 83 and 180-184 *)
RegCommit(w) ==
    /\ workers[w].pc = "commit"
    /\ users' = Append(users, UserRow(users, workers[w].body.username,
                                      workers[w].body.email, workers[w].body.password,
                                      RoleOf(workers[w].body.role), Salt))
    /\ writer' = 0
    /\ workers' = [workers EXCEPT ![w].pc = "done", ![w].status = 201]
    /\ UNCHANGED <<api_operations, clock, held, resp>>

(* the response is sent; the worker takes the next request *)
RegReturn(w) ==
    /\ workers[w].pc = "done"
    /\ workers' = [workers EXCEPT ![w] = Idle]
    /\ UNCHANGED <<users, api_operations, clock, held, resp, writer>>

----------------------------------------------------------------------------
Init ==
    /\ users = <<>>
    /\ api_operations = <<>>
    /\ clock = 0
    /\ held = {}
    /\ resp = NoResp
    /\ workers = [w \in 1..NumWorkers |-> Idle]
    /\ writer = 0

(* SpecRegister: concurrent registrations *)

RegisterBodies ==
    {Body(u, e, GoodPassword, Missing) : u \in Usernames \cup {Null}, e \in Emails}
    \cup {Body("alice", Null, GoodPassword, Missing),
          Body("bob", "bob@x.com", Null, Missing),
          Body("bob", "bob@x.com", Missing, Missing)}

Start == \E w \in 1..NumWorkers, b \in RegisterBodies : RegStart(w, b)
Insert == \E w \in 1..NumWorkers : RegInsert(w)
Commit == \E w \in 1..NumWorkers : RegCommit(w)
Return == \E w \in 1..NumWorkers : RegReturn(w)

NextRegister == Start \/ Insert \/ Commit \/ Return

SpecRegister == Init /\ [][NextRegister]_vars

(* SpecAuth: registration, login and the authenticator, as time passes *)

AuthBodies ==
    {Body("alice", "alice@x.com", GoodPassword, Missing),
     Body("alice", "alice@x.com", "", "admin"),
     Body("bob", "bob@x.com", GoodPassword, "admin")}

AuthHeaders ==
    {NoHeader, Bare(EmptyToken), Bearer(EmptyToken), Bearer(GarbageToken)}
    \cup {Bare(t) : t \in held}
    \cup {Bearer(t) : t \in held \cup UNION {Altered(t) : t \in held}}

AuthRegister == \E b \in AuthBodies : register(b)

AuthLogin ==
    \E u \in Usernames, p \in {GoodPassword, WrongPassword, ""} : login(u, p)

AuthRequest == \E h \in AuthHeaders : get_operations(h, Missing, "rowid_asc")

AuthTick == Tick(ClockPoints)

NextAuth == AuthRegister \/ AuthLogin \/ AuthRequest \/ AuthTick

SpecAuth == Init /\ [][NextAuth]_vars

(* Spec: the operation ledger of two users *)

OpsBodies ==
    {Body("alice", "alice@x.com", GoodPassword, Missing),
     Body("bob", "bob@x.com", GoodPassword, "admin")}

(* a held token with another username, or with other unused bits in its *)
(* last character                                                        *)
Forged(t) ==
    {[t EXCEPT !.payload.username = u] : u \in Usernames \ {t.payload.username}}
    \cup {[t EXCEPT !.last = (t.last + 1) % 64]}

OpsHeaders ==
    {NoHeader} \cup {Bearer(t) : t \in held \cup UNION {Forged(t) : t \in held}}

LedgerHeaders == {NoHeader} \cup {Bearer(t) : t \in held}

LimitParams == {Missing, "abc", "-1", "0", "1"}

Register == \E b \in OpsBodies : register(b)

Login == \E u \in Usernames : login(u, GoodPassword)

CreateOperation ==
    \E h \in OpsHeaders, t \in {"test", Missing} :
        create_operation(h, t, "foo=bar", MaxOps)

GetOperations ==
    \E h \in OpsHeaders, l \in LimitParams, tie \in TieOrders :
        get_operations(h, l, tie)

OpsTick == Tick({TicksPerSecond})

Next == Register \/ Login \/ CreateOperation \/ GetOperations \/ OpsTick

Spec == Init /\ [][Next]_vars

(* SpecLedger: one user, as many operations as the default limit and one more *)

LedgerRegister == register(Body("alice", "alice@x.com", GoodPassword, Missing))

LedgerLogin == login("alice", GoodPassword)

LedgerCreate ==
    \E h \in LedgerHeaders : create_operation(h, "ping", Missing, MaxLedger)

LedgerList == \E h \in LedgerHeaders, tie \in TieOrders : get_operations(h, Missing, tie)

LedgerTick == Tick(EarlyPoints)

NextLedger ==
    LedgerRegister \/ LedgerLogin \/ LedgerCreate \/ LedgerList \/ LedgerTick

SpecLedger == Init /\ [][NextLedger]_vars

----------------------------------------------------------------------------
(* Properties *)

Taken(rows, body) ==
    \E i \in 1..Len(rows) :
        rows[i].username = body.username \/ rows[i].email = body.email

UniqueRows(rows) ==
    \A i, j \in 1..Len(rows) :
        i # j => rows[i].username # rows[j].username /\ rows[i].email # rows[j].email

Finished(w, status) == workers[w].pc # "done" /\ workers'[w].pc = "done"
                       /\ workers'[w].status = status

(* C1: however registrations interleave, no two rows of users share a      *)
(* username or an email; a registration whose INSERT finds its username or *)
(* its email taken answers 409 and changes no row; a registration answers  *)
(* 201 only when neither was taken, and adds exactly its own row.          *)
C1_OneRegistrationPerName ==
    [][/\ UniqueRows(users')
       /\ \A w \in 1..NumWorkers :
            /\ (workers[w].pc = "insert" /\ workers'[w].pc # "insert"
                  /\ Taken(users, workers[w].body))
               => (Finished(w, 409) /\ users' = users)
            /\ Finished(w, 409) => users' = users
            /\ Finished(w, 201)
               => /\ ~Taken(users, workers[w].body)
                  /\ Len(users') = Len(users) + 1
                  /\ SubSeq(users', 1, Len(users)) = users
                  /\ users'[Len(users')].username = workers[w].body.username
                  /\ users'[Len(users')].email = workers[w].body.email
                  /\ users'[Len(users')].id = workers[w].user_id]_vars

(* two registrations of one username with different emails have both been  *)
(* answered: one 201, the other 409                                        *)
C1_Witness ==
    \E v, w \in 1..NumWorkers :
        /\ workers[v].pc = "done" /\ workers[v].status = 201
        /\ workers[w].pc = "done" /\ workers[w].status = 409
        /\ workers[v].body.username = workers[w].body.username
        /\ workers[v].body.email # workers[w].body.email
        /\ Len(users) >= 1

(* C7: a registration is answered 409 "Username or email already exists"   *)
(* only when a row of users has its username or its email.                 *)
C7_ConflictOnlyOnDuplicate ==
    \A w \in 1..NumWorkers :
        (workers[w].pc = "done" /\ workers[w].status = 409)
        => Taken(users, workers[w].body)

----------------------------------------------------------------------------
(* Tokens as login issues them, and tokens that were altered on the way *)

Signed(t) == t.mac = [key |-> SECRET_KEY, msg |-> t.payload]

LastChar(t) == 4 * ((t.payload.user_id + t.payload.exp) % 16)

Untampered(t) == t.kind = "jwt" /\ Signed(t) /\ t.last = LastChar(t)

(* t differs from the token issued at most in the two low bits of its last *)
(* character, which encode nothing                                         *)
SameSignatureBytes(t) ==
    t.kind = "jwt" /\ Signed(t) /\ t.last - (t.last % 4) = LastChar(t)

ExpiryTick(t) == t.payload.exp * TicksPerSecond

Presented == resp.kind = "get_operations" /\ resp.header.present
             /\ resp.header.tok.kind = "jwt"

AdmittedAs(t) ==
    /\ resp.status = 200
    /\ resp.current_user.username = t.payload.username
    /\ resp.current_user.id = t.payload.user_id
    /\ resp.current_user.role = t.payload.role
    /\ resp.current_user \in Range(users)

Rejected(message) == resp.status = 401 /\ resp.message = message

IssuedRight ==
    (resp.kind = "login" /\ resp.status = 200)
    => /\ Untampered(resp.token)
       /\ resp.token.payload.username = resp.username
       /\ resp.token.payload.exp = (resp.now \div TicksPerSecond) + TokenTTL
       /\ \E i \in 1..Len(users) :
            /\ users[i].username = resp.token.payload.username
            /\ users[i].id = resp.token.payload.user_id
            /\ users[i].role = resp.token.payload.role

C3_AuthenticatorCascade ==
    resp.kind = "get_operations" =>
        LET h == resp.header
            t == h.tok
            decoded == jwt_decode(t, SECRET_KEY, resp.now)
            user == get_user_by_username(users, t.payload.username)
        IN  IF ~h.present \/ t.kind = "empty" THEN Rejected("Token is missing")
            ELSE IF decoded = "invalid" THEN Rejected("Token is invalid")
            ELSE IF decoded = "expired" THEN Rejected("Token has expired")
            ELSE IF user = NoUser THEN Rejected("Token is invalid")
            ELSE resp.status = 200 /\ resp.current_user = user

(* C6: login answers 200 with a token exactly when the username is that of *)
(* a registered user and the password is the one given at registration;    *)
(* with credentials that are present and do not match it answers 401       *)
(* without a token.                                                        *)
C6_LoginExactlyOnMatch ==
    resp.kind = "login" =>
        LET match == \E i \in 1..Len(users) :
                        /\ users[i].username = resp.username
                        /\ users[i].password_hash.digest[2] = resp.password
        IN  /\ (resp.status = 200 /\ resp.token # EmptyToken) <=> match
            /\ (~match /\ ~Falsy(resp.username) /\ ~Falsy(resp.password))
               => (resp.status = 401 /\ resp.token = EmptyToken)

----------------------------------------------------------------------------
(* The ledger *)

Listed == resp.kind = "get_operations" /\ resp.status = 200

OwnedBy(rows, user_id) == SelectSeq(rows, LAMBDA r : r.user_id = user_id)

(* the k most recently inserted rows of s, the latest first *)
NewestFirst(s, k) == [i \in 1..Min(k, Len(s)) |-> s[Len(s) + 1 - i]]

(* C4: for a limit k >= 0 the list is exactly the min(k, n) most recently  *)
(* inserted operations of the user, newest first, operations with equal    *)
(* creation timestamps in the order of insertion, the later one first.     *)
C4_NewestFirstById ==
    (Listed /\ resp.limit >= 0)
    => resp.operations =
           NewestFirst(OwnedBy(api_operations, resp.current_user.id), resp.limit)

(* C9: the list holds at most limit operations (none for a limit below 0), *)
(* and at most 10 when no limit is given.                                  *)
C9_LimitBoundsCount ==
    Listed => /\ resp.count <= Max(resp.limit, 0)
              /\ resp.param = Missing => resp.count <= DefaultLimit

(* C5: when a request creates operation k, the list request that follows   *)
(* it with the same token and the default limit answers 200 with count >= 1*)
(* and a list that contains operation k.                                   *)
C5_CreatedThenListed ==
    [][(/\ resp.kind = "create_operation" /\ resp.status = 201
        /\ resp'.kind = "get_operations"
        /\ resp'.header = resp.header
        /\ resp'.param = Missing)
       => (/\ resp'.status = 200
           /\ resp'.count >= 1
           /\ \E i \in 1..Len(resp'.operations) :
                 resp'.operations[i].id = resp.operation_id)]_vars

(* C8: every operation is owned by a user of table users, who was there    *)
(* when the operation was created; rows of users and of api_operations are *)
(* never changed or removed, and a new operation is "pending".             *)
C8_OperationsKeepTheirOwner ==
    [][/\ Len(users') >= Len(users)
       /\ SubSeq(users', 1, Len(users)) = users
       /\ Len(api_operations') >= Len(api_operations)
       /\ SubSeq(api_operations', 1, Len(api_operations)) = api_operations
       /\ \A i \in 1..Len(api_operations') :
            /\ api_operations'[i].status = "pending"
            /\ \E j \in 1..Len(users') : users'[j].id = api_operations'[i].user_id
            /\ i > Len(api_operations)
               => \E j \in 1..Len(users) : users[j].id = api_operations'[i].user_id]_vars

(* both users own an operation, and the last request created one *)
C8_Witness ==
    /\ resp.kind = "create_operation" /\ resp.status = 201
    /\ Len(api_operations) >= 2
    /\ \E i, j \in 1..Len(api_operations) :
          api_operations[i].user_id # api_operations[j].user_id

Admitted == resp.kind \in {"create_operation", "get_operations"}
            /\ resp.status \in {200, 201, 400}

(* C10: an admitted request runs as the user whose id the token carries;   *)
(* an operation it creates is stored under that id; a list it returns      *)
(* holds rows of api_operations of that id and of no other.                *)
C10_OperationsIsolated ==
    /\ Admitted
       => /\ resp.current_user.id = resp.header.tok.payload.user_id
          /\ resp.current_user.username = resp.header.tok.payload.username
          /\ resp.current_user \in Range(users)
    /\ (resp.kind = "create_operation" /\ resp.status = 201)
       => /\ resp.operation_id = Len(api_operations)
          /\ api_operations[resp.operation_id].id = resp.operation_id
          /\ api_operations[resp.operation_id].user_id =
                 resp.header.tok.payload.user_id
    /\ Listed
       => \A i \in 1..Len(resp.operations) :
             /\ resp.operations[i] \in Range(api_operations)
             /\ resp.operations[i].user_id = resp.header.tok.payload.user_id

(* a user lists their own operation while the other user owns one too *)
C10_Witness ==
    /\ Listed
    /\ resp.count >= 1
    /\ \E i \in 1..Len(api_operations) :
          api_operations[i].user_id # resp.current_user.id

====
